---------------------------- MODULE Spec2Model ----------------------------
(***************************************************************************)
(* A model of CV_101: the Camera and Cube of camera_nd_obj.py and the      *)
(* projection of Scene3DViewer.draw_projected_view (scene_3d_viewer.py).   *)
(*                                                                         *)
(* Numbers.  numpy computes in IEEE doubles.  The model computes in exact  *)
(* rational arithmetic: a number is a pair <<n, d>> in lowest terms with   *)
(* d > 0, and <<0, 0>> is NaN, which is what numpy's 0/0 yields (with a    *)
(* RuntimeWarning, not an exception).  NaN propagates through every        *)
(* operation and every ordered comparison with NaN is false, as in IEEE.   *)
(* Square roots are taken exactly, so the operations are offered only the  *)
(* inputs whose norms are rational (HasExactNorm).                         *)
(*                                                                         *)
(* None is the empty tuple.                                                *)
(***************************************************************************)
EXTENDS Integers, Sequences, FiniteSets

VARIABLES
    position,          \* Camera._position
    up,                \* Camera._up
    size,              \* Camera._size
    direction,         \* Camera._direction
    right,             \* Camera._right
    vertices,          \* Camera._vertices
    up_hint,           \* the up argument Camera.__init__ was given
    cube_origin,       \* Cube._origin
    cube_size,         \* Cube._size
    cube_vertices,     \* Cube._vertices
    cube_edges,        \* Cube._edges
    depths,            \* the last draw_projected_view: transformed[2], per vertex
    divisors,          \* the last draw_projected_view: z after the clamp, per vertex
    projected_points,  \* the last draw_projected_view: projected_points
    call,              \* the last operation and its argument
    outcome            \* how the last operation ended

vars == <<position, up, size, direction, right, vertices, up_hint,
          cube_origin, cube_size, cube_vertices, cube_edges,
          depths, divisors, projected_points, call, outcome>>

camera_vars == <<position, up, size, direction, right, vertices>>
cube_vars == <<cube_origin, cube_size, cube_vertices, cube_edges>>
view_vars == <<depths, divisors, projected_points>>

None == <<>>

---------------------------------------------------------------------------
(* Numbers *)

NaN == <<0, 0>>

IsNaN(a) == a[2] = 0

Abs(n) == IF n < 0 THEN -n ELSE n

RECURSIVE GCD(_, _)
GCD(a, b) == IF b = 0 THEN a ELSE GCD(b, a % b)

\* n/d in lowest terms; 0/0 is NaN.
R(n, d) ==
    IF d = 0 THEN NaN
    ELSE LET g == GCD(Abs(n), Abs(d))
             s == IF d < 0 THEN -1 ELSE 1
         IN  <<(s * n) \div g, (s * d) \div g>>

Add(a, b) == IF IsNaN(a) \/ IsNaN(b) THEN NaN
             ELSE R(a[1] * b[2] + b[1] * a[2], a[2] * b[2])

Neg(a) == IF IsNaN(a) THEN NaN ELSE <<-a[1], a[2]>>

Sub(a, b) == Add(a, Neg(b))

Mul(a, b) == IF IsNaN(a) \/ IsNaN(b) THEN NaN
             ELSE R(a[1] * b[1], a[2] * b[2])

\* a / b.  The only divisors of the program are norms, which are zero only
\* for the zero vector, and clamped depths: x/0 with x # 0 does not arise.
Div(a, b) == IF IsNaN(a) \/ IsNaN(b) THEN NaN
             ELSE R(a[1] * b[2], a[2] * b[1])

\* a < b; false when either is NaN.
Lt(a, b) == ~IsNaN(a) /\ ~IsNaN(b) /\ a[1] * b[2] < b[1] * a[2]

ISqrt(n) == CHOOSE k \in 0..n : k * k <= n /\ (k + 1) * (k + 1) > n

IsSquare(a) == IsNaN(a) \/ (a[1] >= 0 /\ ISqrt(a[1]) * ISqrt(a[1]) = a[1]
                                      /\ ISqrt(a[2]) * ISqrt(a[2]) = a[2])

Sqrt(a) == IF IsNaN(a) THEN NaN ELSE <<ISqrt(a[1]), ISqrt(a[2])>>

---------------------------------------------------------------------------
(* Vectors: triples of numbers *)

V(x, y, z) == <<R(x, 1), R(y, 1), R(z, 1)>>

Zero == V(0, 0, 0)

IsFinite(v) == \A i \in 1..Len(v) : ~IsNaN(v[i])

VAdd(a, b) == [i \in 1..3 |-> Add(a[i], b[i])]

VSub(a, b) == [i \in 1..3 |-> Sub(a[i], b[i])]

VNeg(a) == [i \in 1..3 |-> Neg(a[i])]

Scale(k, a) == [i \in 1..3 |-> Mul(k, a[i])]

Dot(a, b) == Add(Add(Mul(a[1], b[1]), Mul(a[2], b[2])), Mul(a[3], b[3]))

Cross(a, b) == <<Sub(Mul(a[2], b[3]), Mul(a[3], b[2])),
                 Sub(Mul(a[3], b[1]), Mul(a[1], b[3])),
                 Sub(Mul(a[1], b[2]), Mul(a[2], b[1]))>>

Norm(a) == Sqrt(Dot(a, a))

HasExactNorm(a) == IsSquare(Dot(a, a))

\* v / np.linalg.norm(v): the zero vector gives <<NaN, NaN, NaN>>.
Normalize(a) == LET n == Norm(a) IN [i \in 1..3 |-> Div(a[i], n)]

MatVec(m, v) == [i \in 1..3 |-> Dot(m[i], v)]

---------------------------------------------------------------------------
(* Inputs *)

MaxCubeHalves == 2

MaxSize == 1

Positions == {V(0, 0, 0), V(0, -4, 0), V(4, 0, 3)}

Targets == {V(0, 0, 0), V(4, 0, 3), V(0, 3, 0), V(0, 0, 5), V(0, -4, 3)}

UpHints == {V(0, 0, 1), V(0, 2, 0)}

Sizes == {R(3, 10)} \cup {R(k, 1) : k \in 0..MaxSize}

CubeOrigins == {V(0, 0, 0), <<R(0, 1), R(1, 4), R(1, 4)>>}

CubeSizes == {R(k, 2) : k \in 0..MaxCubeHalves}

---------------------------------------------------------------------------
(* Camera *)

\* Camera._update_vertices: the apex and the four base corners.
update_vertices(pos, sz, r, d, u) ==
    << pos,
       VAdd(pos, Scale(sz, VSub(VAdd(VNeg(r), d), u))),
       VAdd(pos, Scale(sz, VSub(VAdd(r, d), u))),
       VAdd(pos, Scale(sz, VAdd(VAdd(r, d), u))),
       VAdd(pos, Scale(sz, VAdd(VAdd(VNeg(r), d), u))) >>

\* _update_camera returning early on `self._right is None`.
update_camera_right_guard(pos, u, sz, d, r, verts) ==
    IF r = None
    THEN [up |-> u, right |-> r, vertices |-> verts]
    ELSE LET r2 == Normalize(Cross(d, u))
             u2 == Normalize(Cross(r2, d))
         IN  [up |-> u2, right |-> r2,
              vertices |-> update_vertices(pos, sz, r2, d, u2)]

\* _update_camera with up = direction x right.
update_camera_up_flipped(pos, u, sz, d, r, verts) ==
    IF d = None
    THEN [up |-> u, right |-> r, vertices |-> verts]
    ELSE LET r2 == Normalize(Cross(d, u))
             u2 == Normalize(Cross(d, r2))
         IN  [up |-> u2, right |-> r2,
              vertices |-> update_vertices(pos, sz, r2, d, u2)]

\* _update_camera reading the up given at construction.
update_camera_from_hint(pos, u, sz, d, r, verts) ==
    IF d = None
    THEN [up |-> u, right |-> r, vertices |-> verts]
    ELSE LET r2 == Normalize(Cross(d, up_hint))
             u2 == Normalize(Cross(r2, d))
         IN  [up |-> u2, right |-> r2,
              vertices |-> update_vertices(pos, sz, r2, d, u2)]

\* Camera._update_camera on the fields (pos, u, sz, d, r, verts): the fields
\* it writes.  It returns at once while the direction is None.
update_camera(pos, u, sz, d, r, verts) ==
    IF d = None
    THEN [up |-> u, right |-> r, vertices |-> verts]
    ELSE LET r2 == Normalize(Cross(d, u))
             u2 == Normalize(Cross(r2, d))
         IN  [up |-> u2, right |-> r2,
              vertices |-> update_vertices(pos, sz, r2, d, u2)]

\* The inputs of _update_camera the exact arithmetic can represent.
Representable(d, u) ==
    IF d = None THEN TRUE
    ELSE /\ HasExactNorm(Cross(d, u))
         /\ HasExactNorm(Cross(Normalize(Cross(d, u)), d))

\* draw_projected_view's vectors are its locals: they are gone once another
\* operation runs.
no_view == depths' = None /\ divisors' = None /\ projected_points' = None

\* position.setter
set_position(value) ==
    /\ Representable(direction, up)
    /\ LET c == update_camera(value, up, size, direction, right, vertices)
       IN  /\ position' = value
           /\ up' = c.up
           /\ right' = c.right
           /\ vertices' = c.vertices
    /\ call' = [op |-> "set_position", arg |-> value]
    /\ outcome' = "ok"
    /\ no_view
    /\ UNCHANGED <<size, direction, up_hint, cube_vars>>

\* size.setter without its call of _update_camera.
set_size_store_only(value) ==
    /\ size' = value
    /\ call' = [op |-> "set_size", arg |-> value]
    /\ outcome' = "ok"
    /\ no_view
    /\ UNCHANGED <<position, up, direction, right, vertices, up_hint, cube_vars>>

\* size.setter
set_size(value) ==
    /\ Representable(direction, up)
    /\ LET c == update_camera(position, up, value, direction, right, vertices)
       IN  /\ size' = value
           /\ up' = c.up
           /\ right' = c.right
           /\ vertices' = c.vertices
    /\ call' = [op |-> "set_size", arg |-> value]
    /\ outcome' = "ok"
    /\ no_view
    /\ UNCHANGED <<position, direction, up_hint, cube_vars>>

\* Camera.look_at
look_at(target) ==
    /\ HasExactNorm(VSub(target, position))
    /\ LET d == Normalize(VSub(target, position))
       IN  /\ Representable(d, up)
           /\ LET c == update_camera(position, up, size, d, right, vertices)
              IN  /\ direction' = d
                  /\ up' = c.up
                  /\ right' = c.right
                  /\ vertices' = c.vertices
    /\ call' = [op |-> "look_at", arg |-> target]
    /\ outcome' = "ok"
    /\ no_view
    /\ UNCHANGED <<position, size, up_hint, cube_vars>>

---------------------------------------------------------------------------
(* Cube *)

\* Cube._update_geometry: the eight corners, in the order of the code.
Cube_vertices(o, s) ==
    LET z == R(0, 1)
    IN  << VAdd(o, <<z, z, z>>), VAdd(o, <<s, z, z>>),
           VAdd(o, <<z, s, z>>), VAdd(o, <<s, s, z>>),
           VAdd(o, <<z, z, s>>), VAdd(o, <<s, z, s>>),
           VAdd(o, <<z, s, s>>), VAdd(o, <<s, s, s>>) >>

\* edge_indices with (7,3) written (7,0): a space diagonal.
edge_indices_diagonal ==
    << <<0, 1>>, <<0, 2>>, <<0, 4>>, <<1, 3>>, <<1, 5>>, <<2, 3>>,
       <<2, 6>>, <<4, 5>>, <<4, 6>>, <<7, 0>>, <<7, 5>>, <<7, 6>> >>

\* Cube._update_geometry: edge_indices (0-based, as in the code).
edge_indices ==
    << <<0, 1>>, <<0, 2>>, <<0, 4>>, <<1, 3>>, <<1, 5>>, <<2, 3>>,
       <<2, 6>>, <<4, 5>>, <<4, 6>>, <<7, 3>>, <<7, 5>>, <<7, 6>> >>

\* Cube._update_geometry: each edge as the coordinates of its two ends.
Cube_edges(verts) ==
    [i \in 1..Len(edge_indices) |->
        <<verts[edge_indices[i][1] + 1], verts[edge_indices[i][2] + 1]>>]

---------------------------------------------------------------------------
(* Projection: Scene3DViewer.draw_projected_view *)

camera_matrix == << <<R(800, 1), R(0, 1), R(320, 1)>>,
                    <<R(0, 1), R(800, 1), R(240, 1)>>,
                    <<R(0, 1), R(0, 1), R(1, 1)>> >>

near == R(1, 10)

\* np.column_stack([a, b, c]): the matrix whose columns are a, b, c.
column_stack(a, b, c) == [i \in 1..3 |-> <<a[i], b[i], c[i]>>]

rotation_matrix == column_stack(right, Cross(up, right), up)

translation_vector ==
    MatVec([i \in 1..3 |-> VNeg(rotation_matrix[i])], position)

transformed(vertex) == VAdd(MatVec(rotation_matrix, vertex), translation_vector)

\* The clamp testing `z < 0`.
clamp_negative_only(z) == IF Lt(z, R(0, 1)) THEN near ELSE z

\* z after `if z < 0.1: z = 0.1`
clamp(z) == IF Lt(z, near) THEN near ELSE z

\* The pixel of one vertex.
project_vertex(vertex) ==
    LET t == transformed(vertex)
        z == clamp(t[3])
        x == Div(t[1], z)
        y == Div(t[2], z)
        p == MatVec(camera_matrix, <<x, y, R(1, 1)>>)
    IN  <<p[1], p[2]>>

\* The loop over the cube's vertices.  The viewer calls look_at before its
\* first draw, so the basis is never None here.
draw_projected_view ==
    /\ direction # None
    /\ depths' = [i \in 1..Len(cube_vertices) |-> transformed(cube_vertices[i])[3]]
    /\ divisors' = [i \in 1..Len(cube_vertices) |->
                       clamp(transformed(cube_vertices[i])[3])]
    /\ projected_points' = [i \in 1..Len(cube_vertices) |->
                               project_vertex(cube_vertices[i])]
    /\ call' = [op |-> "draw_projected_view", arg |-> None]
    /\ outcome' = "ok"
    /\ UNCHANGED <<camera_vars, up_hint, cube_vars>>

---------------------------------------------------------------------------
(* The system *)

\* Camera.__init__ and Cube.__init__
Init ==
    /\ position \in Positions
    /\ up \in UpHints
    /\ size \in Sizes
    /\ direction = None
    /\ right = None
    /\ vertices = None
    /\ up_hint = up
    /\ cube_origin \in CubeOrigins
    /\ cube_size \in CubeSizes
    /\ cube_vertices = Cube_vertices(cube_origin, cube_size)
    /\ cube_edges = Cube_edges(cube_vertices)
    /\ depths = None
    /\ divisors = None
    /\ projected_points = None
    /\ call = [op |-> "__init__", arg |-> None]
    /\ outcome = "ok"

SetPosition == \E value \in Positions : set_position(value)

SetSize == \E value \in Sizes : set_size(value)

LookAt == \E target \in Targets : look_at(target)

Project == draw_projected_view

Next == SetPosition \/ SetSize \/ LookAt \/ Project

Spec == Init /\ [][Next]_vars

---------------------------------------------------------------------------
(* Properties *)

one == R(1, 1)

zero == R(0, 1)

Setters == {"set_position", "set_size"}

\* right, up and direction are pairwise orthogonal unit vectors.
Orthonormal ==
    /\ direction # None
    /\ Dot(right, up) = zero
    /\ Dot(right, direction) = zero
    /\ Dot(up, direction) = zero
    /\ Dot(right, right) = one
    /\ Dot(up, up) = one
    /\ Dot(direction, direction) = one

\* This step is a look_at whose target differs from the position and whose
\* direction is not parallel to the up vector it reads.
NonDegenerateLookAt ==
    /\ call'.op = "look_at"
    /\ call'.arg # position
    /\ Cross(Normalize(VSub(call'.arg, position)), up) # Zero

\* This step is a look_at the specification wants rejected.
DegenerateLookAt ==
    /\ call'.op = "look_at"
    /\ \/ call'.arg = position
       \/ Cross(Normalize(VSub(call'.arg, position)), up) = Zero

\* C1: direction, right and vertices are None after construction and stay
\* None through set_position and set_size, which only store their value;
\* look_at, and only look_at, makes them defined, all three together, and
\* once defined they stay defined.
C1_Lifecycle ==
    /\ direction = None /\ right = None /\ vertices = None
    /\ [][ /\ (direction' = None) = (right' = None)
           /\ (direction' = None) = (vertices' = None)
           /\ call'.op = "look_at" => direction' # None
           /\ direction # None => direction' # None
           /\ (direction = None /\ call'.op # "look_at") => direction' = None
           /\ (direction = None /\ call'.op = "set_position") =>
                 /\ position' = call'.arg
                 /\ UNCHANGED <<up, size, direction, right, vertices>>
           /\ (direction = None /\ call'.op = "set_size") =>
                 /\ size' = call'.arg
                 /\ UNCHANGED <<position, up, direction, right, vertices>>
         ]_vars

\* A setter has stored a new value in a camera that never looked anywhere.
C1_Witness ==
    /\ call.op = "set_position"
    /\ position = V(4, 0, 3)
    /\ direction = None /\ right = None /\ vertices = None

\* C2, as claimed: after a non-degenerate look_at, right x up = direction.
C2_RightHanded ==
    [][NonDegenerateLookAt => Cross(right', up') = direction']_vars

\* C2, amended: after a look_at whose target differs from the position and
\* whose up vector is finite and not parallel to the direction,
\* right x up = -direction and up x right = direction.
C2_LeftHanded ==
    [][(NonDegenerateLookAt /\ IsFinite(up)) =>
          /\ Cross(right', up') = VNeg(direction')
          /\ Cross(up', right') = direction'
          /\ Cross(right', up') # direction']_vars

\* A look_at from the origin towards (4,0,3) under the up-hint (0,0,1).
C2_Witness ==
    /\ call.op = "look_at"
    /\ direction = <<R(4, 5), R(0, 1), R(3, 5)>>
    /\ right = V(0, -1, 0)
    /\ up = <<R(-3, 5), R(0, 1), R(4, 5)>>
    /\ Cross(right, up) = VNeg(direction)

\* C3: a non-degenerate look_at leaves an orthonormal basis, and a later
\* set_position, set_size or non-degenerate look_at keeps it orthonormal.
C3_Orthonormal ==
    [][ /\ NonDegenerateLookAt => Orthonormal'
        /\ (Orthonormal /\ (call'.op \in Setters \/ NonDegenerateLookAt))
              => Orthonormal' ]_vars

\* C4: look_at(position) ends with DegenerateDirection and leaves no NaN
\* direction.
C4_DegenerateDirection ==
    (call.op = "look_at" /\ call.arg = position) =>
        /\ outcome = "DegenerateDirection"
        /\ direction = None \/ IsFinite(direction)

\* C5: a look_at whose direction is parallel or anti-parallel to the up
\* vector, so that direction x up is the zero vector, ends with
\* DegenerateBasis.
C5_DegenerateBasis ==
    [][(call'.op = "look_at"
          /\ Cross(Normalize(VSub(call'.arg, position)), up) = Zero)
       => outcome' = "DegenerateBasis"]_vars

\* C6: an update on a degenerate input changes no field of the camera.
C6_NoPartialUpdate ==
    [][DegenerateLookAt => UNCHANGED camera_vars]_vars

\* position + size * (sr*right + direction + su*up)
Corner(sr, su) ==
    VAdd(position,
         Scale(size, VAdd(VAdd(Scale(R(sr, 1), right), direction),
                          Scale(R(su, 1), up))))

\* C7: while the direction is defined the frustum is the apex, which is the
\* current position, and the four corners position + size*(sr*right +
\* direction + su*up) for (sr,su) = (-,-),(+,-),(+,+),(-,+), of the current
\* position, size and basis.
C7_Frustum ==
    direction # None =>
        /\ Len(vertices) = 5
        /\ vertices[1] = position
        /\ vertices[2] = Corner(-1, -1)
        /\ vertices[3] = Corner(1, -1)
        /\ vertices[4] = Corner(1, 1)
        /\ vertices[5] = Corner(-1, 1)

\* The size was set after a look_at along (4,0,3)/5 and the frustum follows.
C7_Witness ==
    /\ call.op = "set_size"
    /\ size = R(3, 10)
    /\ position = V(0, -4, 0)
    /\ direction = <<R(4, 5), R(0, 1), R(3, 5)>>
    /\ IsFinite(right) /\ IsFinite(up)
    /\ vertices[4] = <<R(3, 50), R(-43, 10), R(21, 50)>>

CubeVertexSet == {cube_vertices[i] : i \in 1..Len(cube_vertices)}

CubeEdgeSet == {{cube_edges[i][1], cube_edges[i][2]} : i \in 1..Len(cube_edges)}

\* The coordinates in which a and b differ.
DiffCoords(a, b) == {k \in 1..3 : a[k] # b[k]}

\* C8: for a size s > 0 the cube has the 8 distinct vertices origin +
\* {0,s}^3 and 12 distinct edges, each joining two vertices that differ in
\* exactly one coordinate, by s; every vertex ends exactly 3 edges.
C8_Cube ==
    Lt(zero, cube_size) =>
        /\ Len(cube_vertices) = 8
        /\ Cardinality(CubeVertexSet) = 8
        /\ CubeVertexSet =
              {VAdd(cube_origin, <<a, b, c>>) :
                  a \in {zero, cube_size}, b \in {zero, cube_size},
                  c \in {zero, cube_size}}
        /\ Len(cube_edges) = 12
        /\ Cardinality(CubeEdgeSet) = 12
        /\ \A i \in 1..Len(cube_edges) :
              LET a == cube_edges[i][1]
                  b == cube_edges[i][2]
              IN  /\ a \in CubeVertexSet
                  /\ b \in CubeVertexSet
                  /\ Cardinality(DiffCoords(a, b)) = 1
                  /\ \A k \in DiffCoords(a, b) :
                        Sub(a[k], b[k]) \in {cube_size, Neg(cube_size)}
        /\ \A v \in CubeVertexSet :
              Cardinality({i \in 1..Len(cube_edges) :
                              v \in {cube_edges[i][1], cube_edges[i][2]}}) = 3

\* A cube of size 1/2 at (0,1/4,1/4); its tenth edge runs from corner 7 to
\* corner 3.
C8_Witness ==
    /\ cube_size = R(1, 2)
    /\ cube_origin = <<R(0, 1), R(1, 4), R(1, 4)>>
    /\ cube_edges[10] = << <<R(1, 2), R(3, 4), R(3, 4)>>,
                           <<R(1, 2), R(3, 4), R(1, 4)>> >>

\* C9: draw_projected_view ends normally with one pixel per vertex, in the
\* order of the vertices; the divisor of a vertex is 0.1 when its depth is
\* below 0.1 and its depth otherwise, and is never below 0.1.
C9_Clamp ==
    call.op = "draw_projected_view" =>
        /\ outcome = "ok"
        /\ Len(projected_points) = Len(cube_vertices)
        /\ \A i \in 1..Len(cube_vertices) :
              LET t == transformed(cube_vertices[i])
              IN  /\ depths[i] = t[3]
                  /\ Lt(depths[i], near) => divisors[i] = near
                  /\ ~Lt(depths[i], near) => divisors[i] = depths[i]
                  /\ ~Lt(divisors[i], near)
                  /\ projected_points[i] =
                        << Add(Mul(R(800, 1), Div(t[1], divisors[i])), R(320, 1)),
                           Add(Mul(R(800, 1), Div(t[2], divisors[i])), R(240, 1)) >>

\* One projection meets a vertex behind the camera, one between the camera
\* and the near plane and one in front of the near plane.
C9_Witness ==
    /\ call.op = "draw_projected_view"
    /\ \E i \in 1..Len(depths) : Lt(depths[i], zero) /\ divisors[i] = near
    /\ \E i \in 1..Len(depths) :
          Lt(zero, depths[i]) /\ Lt(depths[i], near) /\ divisors[i] = near
    /\ \E i \in 1..Len(depths) : Lt(near, depths[i]) /\ divisors[i] = depths[i]

\* C10: every recomputation of the basis takes right from direction x the
\* up vector stored by the recomputation before it, and stores its own up.
C10_UpReplaced ==
    [][(direction' # None /\ call'.op \in Setters \cup {"look_at"}) =>
          /\ right' = Normalize(Cross(direction', up))
          /\ up' = Normalize(Cross(right', direction'))]_vars

\* After look_at((4,0,3)) and look_at((0,3,0)) from the origin the basis is
\* not the one a fresh camera with the same up-hint gets from look_at((0,3,0)).
C10_Witness ==
    /\ call.op = "look_at"
    /\ position = V(0, 0, 0)
    /\ up_hint = V(0, 0, 1)
    /\ direction = V(0, 1, 0)
    /\ right = <<R(4, 5), R(0, 1), R(3, 5)>>
    /\ Normalize(Cross(direction, up_hint)) = V(1, 0, 0)

===========================================================================
